---------------------------- MODULE Spec2Model ----------------------------
(***************************************************************************)
(* A model of scripts/annotate_provinces.py: the ray-casting geometry      *)
(* engine (point_in_ring, point_in_polygon, point_in_geometry), the        *)
(* province resolution and record annotation of annotate_incidents, and    *)
(* main's read / parse / annotate / splice / write sequence over the host  *)
(* document.                                                               *)
(*                                                                         *)
(* Numbers.  Coordinates are integers counting grid units of 2e-12, so the *)
(* 1e-12 that point_in_ring adds to an edge's height is EpsNum/EpsDen =    *)
(* 1/2 of a unit.  Arithmetic is exact (rational); the rounding of the     *)
(* floating-point operations is not modelled.  On this grid yj - yi + eps  *)
(* is an odd number of half units and so never zero.                       *)
(***************************************************************************)
EXTENDS Integers, Sequences, FiniteSets

VARIABLES
    \* ---- geometry engine, called on its own
    point,       \* the point (x, y) handed to the engine
    geometry,    \* the geometry handed to the engine: [type, coordinates]
    polyret,     \* <<>> before the call, <<b>> once point_in_polygon returned b
    georet,      \* <<>> before the call, <<b>> once point_in_geometry returned b
    \* ---- annotate_incidents, called on its own
    incidents,   \* the list of incident records the caller holds
    provinces,   \* the list of regions the caller holds
    annret,      \* what the call produced: [state, updated, unknown]
    \* ---- main
    disk,        \* the host document as stored in index.html
    features,    \* the features of data/iran-provinces.geojson
    pc,          \* the statement main executes next
    loc,         \* main's local variables
    exc,         \* the exception that ended the run, "" if none
    writes,      \* how often this run wrote index.html
    steps,       \* the statements this run has completed
    disk0,       \* the host document as it was when this run started
    runs,        \* completed runs of the tool on this document
    stdout       \* what the run printed

geovars == <<point, geometry, polyret, georet>>
annvars == <<incidents, provinces, annret>>
mainvars == <<disk, features, pc, loc, exc, writes, steps, disk0, runs, stdout>>
vars == <<point, geometry, polyret, georet, incidents, provinces, annret,
          disk, features, pc, loc, exc, writes, steps, disk0, runs, stdout>>

(***************************************************************************)
(* Bounds of the model.                                                    *)
(***************************************************************************)
GridMax == 2        \* ring vertices of the ring specification lie in 0..GridMax
MaxRings == 3       \* rings per polygon (outer boundary and holes)
MaxPolys == 2       \* polygons per multi-polygon
MaxIncidents == 2   \* incidents per call of annotate_incidents
MaxRegions == 2     \* regions per call of annotate_incidents
MaxRuns == 2        \* runs of the tool on one document
MaxDocIncidents == 2 \* records in the document's verified array

\* 1e-12 (line 61) in grid units of 2e-12: EpsNum / EpsDen.
EpsNum == 1
EpsDen == 2

(***************************************************************************)
(* Geometry engine.                                                        *)
(***************************************************************************)

\* x < num / den + xi, for den # 0 (multiplied out by den, whose sign turns
\* the comparison).  den = 0 is Python's ZeroDivisionError; it has no case.
LessThanQuotientPlus(x, num, den, xi) ==
    CASE den > 0 -> (x - xi) * den < num
      [] den < 0 -> (x - xi) * den > num

\* Lines 60-62: the edge (pi, pj) straddles the height y and x lies left of
\* where the edge crosses it.  `and` evaluates the division only for a
\* straddling edge.
intersects(pnt, pi, pj) ==
    LET x == pnt[1]  y == pnt[2]
        xi == pi[1]  yi == pi[2]
        xj == pj[1]  yj == pj[2]
    IN  ((yi > y) # (yj > y)) /\
        LessThanQuotientPlus(x, EpsDen * (xj - xi) * (y - yi),
                             EpsDen * (yj - yi) + EpsNum, xi)

\* Lines 57-65: the loop over i with j the previous index, flipping inside.
RECURSIVE ring_loop(_, _, _, _, _)
ring_loop(pnt, ring, i, j, inside) ==
    IF i > Len(ring) THEN inside
    ELSE ring_loop(pnt, ring, i + 1, i,
                   IF intersects(pnt, ring[i], ring[j]) THEN ~inside ELSE inside)

point_in_ring(pnt, ring) == ring_loop(pnt, ring, 1, Len(ring), FALSE)

\* Lines 72-75: the loop over polygon[1:], returning at the first hole that
\* contains the point.
RECURSIVE hole_loop(_, _, _)
hole_loop(pnt, polygon, k) ==
    IF k > Len(polygon) THEN TRUE
    ELSE IF point_in_ring(pnt, polygon[k]) THEN FALSE
    ELSE hole_loop(pnt, polygon, k + 1)

\* Mutant: only the first hole is looked at.
point_in_polygon_first_hole(pnt, polygon) ==
    IF ~point_in_ring(pnt, polygon[1]) THEN FALSE
    ELSE IF Len(polygon) >= 2 /\ point_in_ring(pnt, polygon[2]) THEN FALSE
    ELSE TRUE

point_in_polygon(pnt, polygon) ==
    IF ~point_in_ring(pnt, polygon[1]) THEN FALSE
    ELSE hole_loop(pnt, polygon, 2)

\* Line 82: any(...) over the polygons, in order.
RECURSIVE any_polygon(_, _, _)
any_polygon(pnt, polys, k) ==
    IF k > Len(polys) THEN FALSE
    ELSE IF point_in_polygon(pnt, polys[k]) THEN TRUE
    ELSE any_polygon(pnt, polys, k + 1)

\* Mutant: a multi-polygon is judged by its first polygon alone.
point_in_geometry_first_polygon(pnt, geom) ==
    IF geom.type = "Polygon" THEN point_in_polygon(pnt, geom.coordinates)
    ELSE IF geom.type = "MultiPolygon"
         THEN Len(geom.coordinates) >= 1 /\ point_in_polygon(pnt, geom.coordinates[1])
    ELSE FALSE

point_in_geometry(pnt, geom) ==
    IF geom.type = "Polygon" THEN point_in_polygon(pnt, geom.coordinates)
    ELSE IF geom.type = "MultiPolygon" THEN any_polygon(pnt, geom.coordinates, 1)
    ELSE FALSE

(***************************************************************************)
(* Records.  A Python dict is the sequence of its <<key, value>> pairs in  *)
(* insertion order, which is the order json.dumps writes them in.          *)
(***************************************************************************)
HasKey(d, k) == \E i \in 1..Len(d) : d[i][1] = k
\* d[k], for a key d has.
Get(d, k) == d[CHOOSE i \in 1..Len(d) : d[i][1] = k][2]
KeySeq(d) == [i \in 1..Len(d) |-> d[i][1]]
KeySet(d) == {d[i][1] : i \in 1..Len(d)}

\* Lines 18-50.  The table's entries are data: the model keeps its first
\* three names, with centres (lat, lon) placed on the grid.
PROVINCE_CENTERS ==
    [Tehran |-> <<1, 3>>, Qom |-> <<3, 1>>, Alborz |-> <<4, 0>>]

\* PROVINCE_CENTERS.get(name, default)
centers_get(name, default) ==
    IF name \in DOMAIN PROVINCE_CENTERS THEN PROVINCE_CENTERS[name] ELSE default

\* Lines 97-98: math.hypot of the differences.  The model keeps the square of
\* the distance, which orders pairs of points as the distance does.
distance(point_a, point_b) ==
    (point_a[1] - point_b[1]) * (point_a[1] - point_b[1])
    + (point_a[2] - point_b[2]) * (point_a[2] - point_b[2])

\* Lines 107-109: the regions containing the point, in list order.
RECURSIVE matches_from(_, _, _)
matches_from(pnt, provs, k) ==
    IF k > Len(provs) THEN <<>>
    ELSE (IF point_in_geometry(pnt, provs[k].geometry) THEN <<provs[k]>> ELSE <<>>)
         \o matches_from(pnt, provs, k + 1)

\* Line 113: the key of min().
match_key(lat, lon, province) ==
    distance(<<lat, lon>>, centers_get(province.name, <<lat, lon>>))

\* Mutant: a later region with an equal key replaces the one held.
RECURSIVE min_match_last(_, _, _, _, _)
min_match_last(ms, k, best, lat, lon) ==
    IF k > Len(ms) THEN best
    ELSE min_match_last(ms, k + 1,
                   IF match_key(lat, lon, ms[k]) <= match_key(lat, lon, best)
                   THEN ms[k] ELSE best, lat, lon)

\* Lines 111-114: Python's min(matches, key=...) keeps the first element
\* whose key is smallest.  Called with k = 2 and best = ms[1].
RECURSIVE min_match(_, _, _, _, _)
min_match(ms, k, best, lat, lon) ==
    IF k > Len(ms) THEN best
    ELSE min_match(ms, k + 1,
                   IF match_key(lat, lon, ms[k]) < match_key(lat, lon, best)
                   THEN ms[k] ELSE best, lat, lon)

\* Mutant: the containment test at (lat, lon), the axes not swapped.
province_name_no_swap(coords, provs) ==
    LET lat == coords[1]
        lon == coords[2]
        ms == matches_from(<<lat, lon>>, provs, 1)
    IN  IF ms # <<>> THEN min_match(ms, 2, ms[1], lat, lon).name ELSE "Unknown"

\* Lines 105-116: the province of an incident's coords.
province_name_of(coords, provs) ==
    LET lat == coords[1]
        lon == coords[2]
        ms == matches_from(<<lon, lat>>, provs, 1)
    IN  IF ms # <<>> THEN min_match(ms, 2, ms[1], lat, lon).name ELSE "Unknown"

\* The keys lines 105-129 read from an incident.
RequiredKeys ==
    <<"id", "verified", "desc", "desc_fa", "coords", "link", "date", "size", "alt">>
ToSet(seq) == {seq[i] : i \in 1..Len(seq)}

\* Mutant: the input record's own pairs, with province set or appended.
ordered_record_copy(incident, name) ==
    IF HasKey(incident, "province")
    THEN [i \in 1..Len(incident) |->
            IF incident[i][1] = "province" THEN <<"province", name>> ELSE incident[i]]
    ELSE Append(incident, <<"province", name>>)

\* Mutant: province written after the other nine fields.
ordered_record_province_last(incident, name) ==
    << <<"id", Get(incident, "id")>>,
       <<"verified", Get(incident, "verified")>>,
       <<"desc", Get(incident, "desc")>>,
       <<"desc_fa", Get(incident, "desc_fa")>>,
       <<"coords", Get(incident, "coords")>>,
       <<"link", Get(incident, "link")>>,
       <<"date", Get(incident, "date")>>,
       <<"size", Get(incident, "size")>>,
       <<"alt", Get(incident, "alt")>>,
       <<"province", name>> >>

\* Lines 119-130: the new dict.
ordered_record(incident, name) ==
    << <<"id", Get(incident, "id")>>,
       <<"verified", Get(incident, "verified")>>,
       <<"desc", Get(incident, "desc")>>,
       <<"desc_fa", Get(incident, "desc_fa")>>,
       <<"coords", Get(incident, "coords")>>,
       <<"province", name>>,
       <<"link", Get(incident, "link")>>,
       <<"date", Get(incident, "date")>>,
       <<"size", Get(incident, "size")>>,
       <<"alt", Get(incident, "alt")>> >>

\* Line 118: the entry of the unknown list.
unknown_entry(incident) ==
    << <<"id", Get(incident, "id")>>, <<"coords", Get(incident, "coords")>> >>

\* Mutant: the province is written into the input record, which is then the
\* record appended.
annotate_step_in_place(st, k) ==
    LET incident == st.incidents[k] IN
    IF \E key \in ToSet(RequiredKeys) : ~HasKey(incident, key)
    THEN [st EXCEPT !.state = "KeyError"]
    ELSE LET name == province_name_of(Get(incident, "coords"), st.provinces)
             rec == ordered_record_copy(incident, name)
         IN  [st EXCEPT !.incidents[k] = rec,
                        !.updated = Append(@, rec),
                        !.unknown = IF name = "Unknown"
                                    THEN Append(@, unknown_entry(incident)) ELSE @]

\* Lines 104-131: one pass of the loop body, on incident k.  st holds the
\* objects the call can reach: the caller's incidents and provinces, and the
\* lists updated and unknown.  A key the body reads and the incident lacks
\* raises KeyError out of the function.
annotate_step(st, k) ==
    LET incident == st.incidents[k] IN
    IF \E key \in ToSet(RequiredKeys) : ~HasKey(incident, key)
    THEN [st EXCEPT !.state = "KeyError"]
    ELSE LET name == province_name_of(Get(incident, "coords"), st.provinces)
         IN  [st EXCEPT !.updated = Append(@, ordered_record(incident, name)),
                        !.unknown = IF name = "Unknown"
                                    THEN Append(@, unknown_entry(incident)) ELSE @]

RECURSIVE annotate_loop(_, _)
annotate_loop(st, k) ==
    IF k > Len(st.incidents) \/ st.state # "running" THEN st
    ELSE annotate_loop(annotate_step(st, k), k + 1)

\* Lines 101-132.  state is "returned" (updated and unknown are the result)
\* or the exception raised.
annotate_incidents(incs, provs) ==
    LET st == annotate_loop([incidents |-> incs, provinces |-> provs,
                             updated |-> <<>>, unknown |-> <<>>,
                             state |-> "running"], 1)
    IN  IF st.state = "running" THEN [st EXCEPT !.state = "returned"] ELSE st

(***************************************************************************)
(* Inputs of the geometry specifications.                                  *)
(***************************************************************************)
SeqsUpTo(S, lo, hi) == UNION {[1..n -> S] : n \in lo..hi}

Grid == (0..GridMax) \X (0..GridMax)
GridPoints == (-1..GridMax + 1) \X (-1..GridMax + 1)

\* Rings the polygons of the geometry specification are built from: a
\* triangle, a square in both winding directions, and a triangle inside them.
RingPool ==
    { <<<<0, 0>>, <<4, 0>>, <<0, 4>>>>,
      <<<<0, 0>>, <<4, 0>>, <<4, 4>>, <<0, 4>>>>,
      <<<<1, 1>>, <<1, 3>>, <<3, 3>>, <<3, 1>>>>,
      <<<<1, 1>>, <<3, 1>>, <<1, 3>>>> }
PoolPoints == (-1..5) \X {-1, 1, 2, 3}

Polygons == SeqsUpTo(RingPool, 1, MaxRings)
PolyPool ==
    { <<<<<<0, 0>>, <<4, 0>>, <<0, 4>>>>>>,
      <<<<<<0, 0>>, <<4, 0>>, <<4, 4>>, <<0, 4>>>>, <<<<1, 1>>, <<3, 1>>, <<1, 3>>>>>>,
      <<<<<<1, 1>>, <<1, 3>>, <<3, 3>>, <<3, 1>>>>>> }
PolygonGeometries == {[type |-> "Polygon", coordinates |-> p] : p \in Polygons}
MultiPolygonGeometries ==
    {[type |-> "MultiPolygon", coordinates |-> m] : m \in SeqsUpTo(PolyPool, 1, MaxPolys)}
\* Geometry types of GeoJSON that point_in_geometry has no branch for.
OtherGeometries ==
    {[type |-> t, coordinates |-> <<<<1, 1>>, <<3, 3>>>>] : t \in {"LineString", "MultiPoint"}}

GeoIdle ==
    /\ incidents = <<>> /\ provinces = <<>>
    /\ annret = [state |-> "idle", updated |-> <<>>, unknown |-> <<>>]
    /\ disk = <<>> /\ features = <<>> /\ pc = "idle" /\ loc = <<>> /\ exc = ""
    /\ writes = 0 /\ steps = {} /\ disk0 = <<>> /\ runs = 0 /\ stdout = <<>>

InitGeometry ==
    /\ point \in PoolPoints
    /\ \/ geometry \in PolygonGeometries
       \/ geometry \in MultiPolygonGeometries
       \/ geometry \in OtherGeometries
    /\ polyret = <<>> /\ georet = <<>>
    /\ GeoIdle

\* The ring specification: every ring of three or four grid vertices, as the
\* one ring of a polygon.
InitRing ==
    /\ point \in GridPoints
    /\ \E ring \in SeqsUpTo(Grid, 3, 4) :
           geometry = [type |-> "Polygon", coordinates |-> <<ring>>]
    /\ polyret = <<>> /\ georet = <<>>
    /\ GeoIdle

\* A call of point_in_polygon(point, geometry["coordinates"]).
CallPointInPolygon ==
    /\ polyret = <<>>
    /\ geometry.type = "Polygon"
    /\ polyret' = <<point_in_polygon(point, geometry.coordinates)>>
    /\ UNCHANGED <<point, geometry, georet, annvars, mainvars>>

\* A call of point_in_geometry(point, geometry).
CallPointInGeometry ==
    /\ georet = <<>>
    /\ georet' = <<point_in_geometry(point, geometry)>>
    /\ UNCHANGED <<point, geometry, polyret, annvars, mainvars>>

NextGeometry == CallPointInPolygon \/ CallPointInGeometry

SpecGeometry == InitGeometry /\ [][NextGeometry]_vars
SpecRing == InitRing /\ [][NextGeometry]_vars

(***************************************************************************)
(* Inputs of the annotation specification.                                 *)
(***************************************************************************)
Rect == <<<<0, 0>>, <<4, 0>>, <<4, 2>>, <<0, 2>>>>
Tri == <<<<0, 0>>, <<4, 0>>, <<0, 4>>>>
Square == <<<<1, 1>>, <<1, 3>>, <<3, 3>>, <<3, 1>>>>
BigSquare == <<<<0, 0>>, <<4, 0>>, <<4, 4>>, <<0, 4>>>>
SmallTri == <<<<1, 1>>, <<3, 1>>, <<1, 3>>>>

\* Regions as load_provinces returns them.  Two have centres in the table,
\* one has a name the table lacks, one carries the default name "Unknown",
\* and one has a geometry type the engine has no branch for.
RegionPool ==
    << [name |-> "Tehran", geometry |-> [type |-> "Polygon", coordinates |-> <<Rect>>]],
       [name |-> "Qom",
        geometry |-> [type |-> "MultiPolygon", coordinates |-> <<<<Tri>>, <<Square>>>>]],
       [name |-> "Razavi Khorasan",
        geometry |-> [type |-> "Polygon", coordinates |-> <<Square>>]],
       [name |-> "Unknown",
        geometry |-> [type |-> "Polygon", coordinates |-> <<BigSquare, SmallTri>>]],
       [name |-> "Alborz", geometry |-> [type |-> "LineString", coordinates |-> Tri]] >>

RegionLists ==
    UNION {{[i \in 1..n |-> RegionPool[f[i]]] : f \in [1..n -> 1..Len(RegionPool)]} :
           n \in 0..MaxRegions}

\* An incident record with the nine required fields in the document's order.
Incident(id, coords) ==
    << <<"id", id>>, <<"verified", TRUE>>, <<"desc", "d">>, <<"desc_fa", "f">>,
       <<"coords", coords>>, <<"link", "l">>, <<"date", "2026">>, <<"size", "s">>,
       <<"alt", "a">> >>
\* The same fields in another order, with a province already present.
IncidentAnnotated(id, coords, province) ==
    << <<"alt", "a">>, <<"id", id>>, <<"province", province>>, <<"coords", coords>>,
       <<"verified", FALSE>>, <<"desc", "d">>, <<"desc_fa", "f">>, <<"link", "l">>,
       <<"date", "2026">>, <<"size", "s">> >>
\* With a field outside the required ones.
IncidentWithNote(id, coords) == Incident(id, coords) \o << <<"note", "n">> >>
\* Without the link field.
IncidentNoLink(id, coords) ==
    SelectSeq(Incident(id, coords), LAMBDA kv : kv[1] # "link")

IncidentPool ==
    << Incident("i1", <<1, 1>>),
       IncidentAnnotated("i2", <<1, 2>>, "Qom"),
       IncidentWithNote("i3", <<3, 1>>),
       IncidentNoLink("i4", <<1, 2>>),
       Incident("i5", <<4, 4>>),
       Incident("i6", <<2, 3>>) >>

IncidentLists ==
    UNION {{[i \in 1..n |-> IncidentPool[f[i]]] : f \in [1..n -> 1..Len(IncidentPool)]} :
           n \in 0..MaxIncidents}

InitAnnotate ==
    /\ incidents \in IncidentLists
    /\ provinces \in RegionLists
    /\ annret = [state |-> "ready", updated |-> <<>>, unknown |-> <<>>]
    /\ point = <<0, 0>> /\ geometry = RegionPool[1].geometry
    /\ polyret = <<>> /\ georet = <<>>
    /\ disk = <<>> /\ features = <<>> /\ pc = "idle" /\ loc = <<>> /\ exc = ""
    /\ writes = 0 /\ steps = {} /\ disk0 = <<>> /\ runs = 0 /\ stdout = <<>>

\* A call of annotate_incidents(incidents, provinces): the caller's lists as
\* the call leaves them, and the result (none when the call raised).
CallAnnotate ==
    /\ annret.state = "ready"
    /\ LET st == annotate_incidents(incidents, provinces)
       IN  /\ incidents' = st.incidents
           /\ provinces' = st.provinces
           /\ annret' = IF st.state = "returned"
                        THEN [state |-> "returned", updated |-> st.updated,
                              unknown |-> st.unknown]
                        ELSE [state |-> st.state, updated |-> <<>>, unknown |-> <<>>]
    /\ UNCHANGED <<geovars, mainvars>>

NextAnnotate == CallAnnotate

SpecAnnotate == InitAnnotate /\ [][NextAnnotate]_vars

(***************************************************************************)
(* The host document.  Its text is a sequence of tokens: the two opening   *)
(* literals "const verifiedIncidents = useMemo(() => [" and                *)
(* "const unverifiedIncidents = useMemo(() => [", the closing literal      *)
(* "], []);", a newline, runs of 16 and of 12 spaces, a comma, the JSON    *)
(* text of one record, and any other text.  A record's text is canonical   *)
(* when it is what json.dumps(record, ensure_ascii=False) writes.          *)
(***************************************************************************)
Tok(kind) == [t |-> kind, v |-> <<>>, canon |-> TRUE]
JsonTok(record, canon) == [t |-> "json", v |-> record, canon |-> canon]
\* What \s matches.
IsSpace(tok) == tok.t \in {"nl", "sp16", "sp12"}

\* Whether "\n\s*\], \[\]\);" matches at token k.
ClosesAt(content, k) ==
    /\ content[k].t = "nl"
    /\ \E e \in (k + 1)..Len(content) :
          /\ content[e].t = "close"
          /\ \A m \in (k + 1)..(e - 1) : IsSpace(content[m])

\* Lines 9-16, pattern.search(content): the leftmost opening literal from
\* which the pattern matches, the lazy group (.*?) ending at the first place
\* the rest matches.  start and end are span(1): the group is the tokens
\* start + 1 .. end.
search(content, open) ==
    LET starts == {o \in 1..Len(content) :
                      /\ content[o].t = open
                      /\ \E k \in (o + 1)..Len(content) : ClosesAt(content, k)}
    IN  IF starts = {} THEN [found |-> FALSE, start |-> 0, end |-> 0]
        ELSE LET o == CHOOSE a \in starts : \A b \in starts : a <= b
                 k == CHOOSE a \in (o + 1)..Len(content) :
                          /\ ClosesAt(content, a)
                          /\ \A b \in (o + 1)..(a - 1) : ~ClosesAt(content, b)
             IN  [found |-> TRUE, start |-> o, end |-> k - 1]

\* str.strip() and the white space json.loads skips between values.
NoSpace(text) == SelectSeq(text, LAMBDA tok : ~IsSpace(tok))

\* json.loads of "[" + array_text + "]": records separated by commas.
IsJsonArray(text) ==
    /\ Len(text) % 2 = 1
    /\ \A i \in 1..Len(text) :
          text[i].t = (IF i % 2 = 1 THEN "json" ELSE "comma")

\* Lines 135-143.  state is "returned" or the exception raised; a text that
\* json.loads rejects raises JSONDecodeError, a ValueError.
parse_incidents(content, open) ==
    LET m == search(content, open)
        array_text == NoSpace(SubSeq(content, m.start + 1, m.end))
    IN  IF ~m.found THEN [state |-> "ValueError", incidents |-> <<>>]
        ELSE IF array_text = <<>> THEN [state |-> "returned", incidents |-> <<>>]
        ELSE IF ~IsJsonArray(array_text)
             THEN [state |-> "JSONDecodeError", incidents |-> <<>>]
        ELSE [state |-> "returned",
              incidents |-> [i \in 1..((Len(array_text) + 1) \div 2) |->
                                array_text[2 * i - 1].v]]

\* Lines 146-148: "\n", the records each behind 16 spaces and joined by
\* ",\n", then "\n" and 12 spaces.
format_incidents(incs) ==
    LET line(i) == (IF i > 1 THEN <<Tok("comma"), Tok("nl")>> ELSE <<>>)
                   \o <<Tok("sp16"), JsonTok(incs[i], TRUE)>>
        join[i \in 0..Len(incs)] == IF i = 0 THEN <<>> ELSE join[i - 1] \o line(i)
    IN  <<Tok("nl")>> \o join[Len(incs)] \o <<Tok("nl"), Tok("sp12")>>

\* Lines 151-156.
replace_block(content, open, new_block) ==
    LET m == search(content, open)
    IN  IF ~m.found THEN [state |-> "ValueError", content |-> <<>>]
        ELSE [state |-> "returned",
              content |-> SubSeq(content, 1, m.start) \o new_block
                          \o SubSeq(content, m.end + 1, Len(content))]

\* Lines 86-94: a feature's name property, "Unknown" when it has none.
load_provinces(feats) ==
    [i \in 1..Len(feats) |->
        [name |-> IF HasKey(feats[i].properties, "name")
                  THEN Get(feats[i].properties, "name") ELSE "Unknown",
         geometry |-> feats[i].geometry]]

(***************************************************************************)
(* main, lines 159-188, statement by statement.                            *)
(***************************************************************************)
\* Mutant: the document is written right after the first splice.
next_stmt_write_early(stmt) ==
    CASE stmt = "read_text" -> "load_provinces"
      [] stmt = "load_provinces" -> "parse_verified"
      [] stmt = "parse_verified" -> "parse_unverified"
      [] stmt = "parse_unverified" -> "annotate_verified"
      [] stmt = "annotate_verified" -> "annotate_unverified"
      [] stmt = "annotate_unverified" -> "replace_verified"
      [] stmt = "replace_verified" -> "write_text"
      [] stmt = "write_text" -> "replace_unverified"
      [] stmt = "replace_unverified" -> "print"
      [] stmt = "print" -> "done"

\* The statement that follows stmt when stmt raises nothing.
next_stmt(stmt) ==
    CASE stmt = "read_text" -> "load_provinces"
      [] stmt = "load_provinces" -> "parse_verified"
      [] stmt = "parse_verified" -> "parse_unverified"
      [] stmt = "parse_unverified" -> "annotate_verified"
      [] stmt = "annotate_verified" -> "annotate_unverified"
      [] stmt = "annotate_unverified" -> "replace_verified"
      [] stmt = "replace_verified" -> "replace_unverified"
      [] stmt = "replace_unverified" -> "write_text"
      [] stmt = "write_text" -> "print"
      [] stmt = "print" -> "done"

NoLocals ==
    [content |-> <<>>, provinces |-> <<>>,
     verified_incidents |-> <<>>, unverified_incidents |-> <<>>,
     updated_verified |-> <<>>, unknown_verified |-> <<>>,
     updated_unverified |-> <<>>, unknown_unverified |-> <<>>,
     updated_content |-> <<>>]

\* The statement at pc completes, leaving main's locals as newloc.
Advance(newloc) ==
    /\ loc' = newloc
    /\ steps' = steps \cup {pc}
    /\ pc' = next_stmt(pc)
    /\ exc' = exc
\* The statement at pc raises: nothing catches it and the run ends.
Raise(name) ==
    /\ loc' = loc
    /\ steps' = steps
    /\ pc' = "aborted"
    /\ exc' = name

\* Line 160
ReadText ==
    /\ pc = "read_text"
    /\ Advance([loc EXCEPT !.content = disk])
    /\ UNCHANGED <<geovars, annvars, disk, features, writes, disk0, runs, stdout>>

\* Line 161
LoadProvinces ==
    /\ pc = "load_provinces"
    /\ Advance([loc EXCEPT !.provinces = load_provinces(features)])
    /\ UNCHANGED <<geovars, annvars, disk, features, writes, disk0, runs, stdout>>

\* Line 163
ParseVerified ==
    /\ pc = "parse_verified"
    /\ LET r == parse_incidents(loc.content, "open_verified")
       IN  IF r.state = "returned"
           THEN Advance([loc EXCEPT !.verified_incidents = r.incidents])
           ELSE Raise(r.state)
    /\ UNCHANGED <<geovars, annvars, disk, features, writes, disk0, runs, stdout>>

\* Line 164
ParseUnverified ==
    /\ pc = "parse_unverified"
    /\ LET r == parse_incidents(loc.content, "open_unverified")
       IN  IF r.state = "returned"
           THEN Advance([loc EXCEPT !.unverified_incidents = r.incidents])
           ELSE Raise(r.state)
    /\ UNCHANGED <<geovars, annvars, disk, features, writes, disk0, runs, stdout>>

\* Line 166
AnnotateVerified ==
    /\ pc = "annotate_verified"
    /\ LET st == annotate_incidents(loc.verified_incidents, loc.provinces)
       IN  IF st.state = "returned"
           THEN Advance([loc EXCEPT !.verified_incidents = st.incidents,
                                    !.provinces = st.provinces,
                                    !.updated_verified = st.updated,
                                    !.unknown_verified = st.unknown])
           ELSE Raise(st.state)
    /\ UNCHANGED <<geovars, annvars, disk, features, writes, disk0, runs, stdout>>

\* Line 167
AnnotateUnverified ==
    /\ pc = "annotate_unverified"
    /\ LET st == annotate_incidents(loc.unverified_incidents, loc.provinces)
       IN  IF st.state = "returned"
           THEN Advance([loc EXCEPT !.unverified_incidents = st.incidents,
                                    !.provinces = st.provinces,
                                    !.updated_unverified = st.updated,
                                    !.unknown_unverified = st.unknown])
           ELSE Raise(st.state)
    /\ UNCHANGED <<geovars, annvars, disk, features, writes, disk0, runs, stdout>>

\* Lines 169-173
ReplaceVerified ==
    /\ pc = "replace_verified"
    /\ LET r == replace_block(loc.content, "open_verified",
                              format_incidents(loc.updated_verified))
       IN  IF r.state = "returned"
           THEN Advance([loc EXCEPT !.updated_content = r.content])
           ELSE Raise(r.state)
    /\ UNCHANGED <<geovars, annvars, disk, features, writes, disk0, runs, stdout>>

\* Lines 174-178
ReplaceUnverified ==
    /\ pc = "replace_unverified"
    /\ LET r == replace_block(loc.updated_content, "open_unverified",
                              format_incidents(loc.updated_unverified))
       IN  IF r.state = "returned"
           THEN Advance([loc EXCEPT !.updated_content = r.content])
           ELSE Raise(r.state)
    /\ UNCHANGED <<geovars, annvars, disk, features, writes, disk0, runs, stdout>>

\* Line 180
WriteText ==
    /\ pc = "write_text"
    /\ disk' = loc.updated_content
    /\ writes' = writes + 1
    /\ Advance(loc)
    /\ UNCHANGED <<geovars, annvars, features, disk0, runs, stdout>>

Line(text, id, coords) == [text |-> text, id |-> id, coords |-> coords]

\* Lines 182-188
PrintReport ==
    /\ pc = "print"
    /\ LET unknown == loc.unknown_verified \o loc.unknown_unverified
       IN  stdout' =
             IF unknown # <<>>
             THEN <<Line("Unknown province coordinates:", "", <<>>)>> \o
                  [i \in 1..Len(unknown) |->
                      Line("- ", Get(unknown[i], "id"), Get(unknown[i], "coords"))]
             ELSE <<Line("All incidents assigned to a province.", "", <<>>)>>
    /\ runs' = runs + 1
    /\ Advance(loc)
    /\ UNCHANGED <<geovars, annvars, disk, features, writes, disk0>>

\* The tool is invoked again on the document the last run left.
RunAgain ==
    /\ pc = "done"
    /\ runs < MaxRuns
    /\ pc' = "read_text"
    /\ loc' = NoLocals
    /\ exc' = ""
    /\ writes' = 0
    /\ steps' = {}
    /\ disk0' = disk
    /\ stdout' = <<>>
    /\ UNCHANGED <<geovars, annvars, disk, features, runs>>

(***************************************************************************)
(* Documents and datasets main starts from.                                *)
(***************************************************************************)
Feature(props, geom) == [properties |-> props, geometry |-> geom]
FeatureLists ==
    { << Feature(<< <<"name", "Tehran">> >>, RegionPool[1].geometry),
         Feature(<< <<"name", "Qom">> >>, RegionPool[2].geometry) >>,
      << Feature(<< <<"id", "f3">> >>, RegionPool[4].geometry),
         Feature(<< <<"id", "f4">>, <<"name", "Razavi Khorasan">> >>, RegionPool[3].geometry),
         Feature(<< <<"name", "Alborz">> >>, RegionPool[5].geometry) >> }

\* Records of the documents: one not yet annotated, one as the tool writes it
\* for the first dataset, and one without its link.
DocPool ==
    << Incident("i1", <<1, 2>>),
       ordered_record(Incident("i2", <<1, 1>>), "Tehran"),
       IncidentNoLink("i4", <<1, 2>>) >>
DocIncidentLists ==
    UNION {{[i \in 1..n |-> DocPool[f[i]]] : f \in [1..n -> 1..Len(DocPool)]} :
           n \in 0..MaxDocIncidents}

\* The text between an opening literal and the line of the closing one, as
\* the document's author lays it out: a record a line.
Block(incs, canon) ==
    LET line(i) == (IF i > 1 THEN <<Tok("comma")>> ELSE <<>>)
                   \o <<Tok("nl"), Tok("sp16"), JsonTok(incs[i], canon)>>
        join[i \in 0..Len(incs)] == IF i = 0 THEN <<>> ELSE join[i - 1] \o line(i)
    IN  join[Len(incs)]
\* An array of the document; with the closing literal on the opening line the
\* pattern does not match.
Array(open, block) == <<Tok(open)>> \o block \o <<Tok("nl"), Tok("sp12"), Tok("close")>>
VerifiedArrays ==
    {Array("open_verified", Block(l, c)) : l \in DocIncidentLists, c \in BOOLEAN}
    \cup {Array("open_verified", <<Tok("nl"), Tok("sp16"), Tok("text")>>),
          <<Tok("open_verified"), Tok("close")>>}
UnverifiedArrays ==
    {Array("open_unverified", Block(l, TRUE)) :
        l \in {<<>>, <<Incident("i5", <<4, 4>>)>>, <<IncidentNoLink("i6", <<3, 1>>)>>}}
    \cup {Array("open_unverified", <<Tok("nl"), Tok("sp16"), Tok("text")>>),
          <<Tok("text")>>}
Documents ==
    {<<Tok("text"), Tok("nl"), Tok("sp12")>> \o v \o <<Tok("nl"), Tok("sp12")>> \o u
        \o <<Tok("nl"), Tok("text")>> : v \in VerifiedArrays, u \in UnverifiedArrays}

Init ==
    /\ disk \in Documents
    /\ features \in FeatureLists
    /\ pc = "read_text"
    /\ loc = NoLocals
    /\ exc = ""
    /\ writes = 0
    /\ steps = {}
    /\ disk0 = disk
    /\ runs = 0
    /\ stdout = <<>>
    /\ point = <<0, 0>> /\ geometry = RegionPool[1].geometry
    /\ polyret = <<>> /\ georet = <<>>
    /\ incidents = <<>> /\ provinces = <<>>
    /\ annret = [state |-> "idle", updated |-> <<>>, unknown |-> <<>>]

Next ==
    \/ ReadText \/ LoadProvinces \/ ParseVerified \/ ParseUnverified
    \/ AnnotateVerified \/ AnnotateUnverified \/ ReplaceVerified \/ ReplaceUnverified
    \/ WriteText \/ PrintReport \/ RunAgain

Spec == Init /\ [][Next]_vars

(***************************************************************************)
(* Claims about the geometry engine.                                       *)
(***************************************************************************)

\* C1: point_in_polygon returns true if and only if point_in_ring is true for
\* the polygon's first ring and false for every later ring (hole); a point
\* inside the outer ring and inside any hole yields false.
C1_PolygonIffOuterAndNoHole ==
    polyret # <<>> =>
        LET polygon == geometry.coordinates
        IN  polyret[1] = ( /\ point_in_ring(point, polygon[1])
                           /\ \A k \in 2..Len(polygon) : ~point_in_ring(point, polygon[k]) )

\* C1's case: the point is inside the outer ring, outside the first hole and
\* inside the second, and point_in_polygon returned false.
C1_Witness ==
    /\ polyret = <<FALSE>>
    /\ Len(geometry.coordinates) = 3
    /\ point_in_ring(point, geometry.coordinates[1])
    /\ ~point_in_ring(point, geometry.coordinates[2])
    /\ point_in_ring(point, geometry.coordinates[3])

\* C2: point_in_geometry equals point_in_polygon on the coordinates of a
\* Polygon, is the logical OR of point_in_polygon over the polygons of a
\* MultiPolygon, and returns false for every other type.
C2_GeometryDispatch ==
    georet # <<>> =>
        georet[1] =
            ( \/ /\ geometry.type = "Polygon"
                 /\ point_in_polygon(point, geometry.coordinates)
              \/ /\ geometry.type = "MultiPolygon"
                 /\ \E k \in 1..Len(geometry.coordinates) :
                        point_in_polygon(point, geometry.coordinates[k]) )

\* C2's case: a multi-polygon whose first polygon does not contain the point
\* and whose second does, reported as containing.
C2_Witness ==
    /\ georet = <<TRUE>>
    /\ geometry.type = "MultiPolygon"
    /\ Len(geometry.coordinates) = 2
    /\ ~point_in_polygon(point, geometry.coordinates[1])
    /\ point_in_polygon(point, geometry.coordinates[2])

\* Twice the signed area of the triangle a, b, c.
Cross(a, b, c) == (b[1] - a[1]) * (c[2] - a[2]) - (b[2] - a[2]) * (c[1] - a[1])
Succ(ring, i) == ring[(i % Len(ring)) + 1]
\* A simple convex ring: every corner turns the same way (three or four
\* vertices, either winding direction).
IsConvexRing(ring) ==
    \/ \A i \in 1..Len(ring) : Cross(ring[i], Succ(ring, i), Succ(ring, i + 1)) > 0
    \/ \A i \in 1..Len(ring) : Cross(ring[i], Succ(ring, i), Succ(ring, i + 1)) < 0
\* The point lies strictly on the inner side of every edge.
StrictlyInside(pnt, ring) ==
    \/ \A i \in 1..Len(ring) : Cross(ring[i], Succ(ring, i), pnt) > 0
    \/ \A i \in 1..Len(ring) : Cross(ring[i], Succ(ring, i), pnt) < 0
OutsideBoundingBox(pnt, ring) ==
    \/ \A i \in 1..Len(ring) : pnt[1] < ring[i][1]
    \/ \A i \in 1..Len(ring) : pnt[1] > ring[i][1]
    \/ \A i \in 1..Len(ring) : pnt[2] < ring[i][2]
    \/ \A i \in 1..Len(ring) : pnt[2] > ring[i][2]

\* C3: for a simple convex ring R, point_in_polygon(P, [R]) is true for every
\* P strictly inside R and false for every P strictly outside R's bounding box.
C3_ConvexRingParity ==
    (polyret # <<>> /\ Len(geometry.coordinates) = 1
        /\ IsConvexRing(geometry.coordinates[1])) =>
        LET ring == geometry.coordinates[1]
        IN  /\ StrictlyInside(point, ring) => polyret[1]
            /\ OutsideBoundingBox(point, ring) => ~polyret[1]

(***************************************************************************)
(* Claims about annotate_incidents.                                        *)
(***************************************************************************)
Returned == annret.state = "returned"
\* The regions of the list whose geometry contains the incident's point
\* (x = lon, y = lat).
Containing(incident) ==
    LET c == Get(incident, "coords")
    IN  {j \in 1..Len(provinces) : point_in_geometry(<<c[2], c[1]>>, provinces[j].geometry)}
\* The incidents whose output province is "Unknown", in input order.
UnknownIndices == {k \in 1..Len(annret.updated) : Get(annret.updated[k], "province") = "Unknown"}
RECURSIVE UnknownExpected(_)
UnknownExpected(k) ==
    IF k = 0 THEN <<>>
    ELSE UnknownExpected(k - 1) \o
         (IF k \in UnknownIndices
          THEN << << <<"id", Get(incidents[k], "id")>>,
                     <<"coords", Get(incidents[k], "coords")>> >> >>
          ELSE <<>>)

\* C4: containment is tested at (x = lon, y = lat): an incident no region
\* contains gets the province "Unknown" and any other the name of a region
\* containing it; the unknown list holds, in input order, exactly one entry
\* {id, coords} for each incident whose output province is "Unknown".
C4_UnknownFallbackAndReport ==
    Returned =>
        /\ Len(annret.updated) = Len(incidents)
        /\ \A k \in 1..Len(incidents) :
              IF Containing(incidents[k]) = {}
              THEN Get(annret.updated[k], "province") = "Unknown"
              ELSE \E j \in Containing(incidents[k]) :
                       Get(annret.updated[k], "province") = provinces[j].name
        /\ annret.unknown = UnknownExpected(Len(incidents))

\* C4's case: two incidents, the first inside a region with a centre and the
\* second inside none, and one entry reported.
C4_Witness ==
    /\ Returned
    /\ Len(incidents) = 2
    /\ Containing(incidents[1]) # {}
    /\ Get(annret.updated[1], "province") # "Unknown"
    /\ Containing(incidents[2]) = {}
    /\ Len(annret.unknown) = 1

CanonicalKeys ==
    <<"id", "verified", "desc", "desc_fa", "coords", "province", "link", "date", "size",
      "alt">>

\* C5: for incidents that all have the required fields, the updated list has
\* the input's length and order, and each output record has the ten canonical
\* keys in the canonical order, province a string, and every other field
\* equal to the input record's.
C5_CanonicalRecords ==
    (annret.state # "ready"
        /\ \A k \in 1..Len(incidents) : ToSet(RequiredKeys) \subseteq KeySet(incidents[k])) =>
        /\ Returned
        /\ Len(annret.updated) = Len(incidents)
        /\ \A k \in 1..Len(incidents) :
              /\ KeySeq(annret.updated[k]) = CanonicalKeys
              /\ Get(annret.updated[k], "province") \in
                    {"Unknown"} \cup {provinces[j].name : j \in 1..Len(provinces)}
              /\ \A key \in ToSet(RequiredKeys) :
                    Get(annret.updated[k], key) = Get(incidents[k], key)

\* C5's case: a record whose keys came in another order, behind another record.
C5_Witness ==
    /\ Returned
    /\ Len(incidents) = 2
    /\ KeySeq(incidents[2]) # RequiredKeys
    /\ KeySeq(annret.updated[2]) = CanonicalKeys
    /\ Get(annret.updated[1], "id") # Get(annret.updated[2], "id")

\* C8 as stated: every output record has the field set of its input record
\* plus province.
C8_SameFieldSetPlusProvince ==
    Returned =>
        \A k \in 1..Len(incidents) :
            KeySet(annret.updated[k]) = KeySet(incidents[k]) \cup {"province"}

\* C8 as amended: every output record has exactly the nine required fields of
\* its input record plus province; a field of the input record outside those
\* ten is not carried over.
C8_RequiredFieldsPlusProvince ==
    Returned =>
        \A k \in 1..Len(incidents) :
            /\ KeySet(annret.updated[k]) =
                  (KeySet(incidents[k]) \cap ToSet(RequiredKeys)) \cup {"province"}
            /\ Cardinality(KeySet(annret.updated[k])) = Len(annret.updated[k])
            /\ Len(annret.updated[k]) = Len(RequiredKeys) + 1

\* C8's case: an input record with a field outside the required ones.
C8_Witness ==
    /\ Returned
    /\ \E k \in 1..Len(incidents) :
          /\ HasKey(incidents[k], "note")
          /\ ~HasKey(annret.updated[k], "note")

\* The key min() ranks region j by, for an incident.
KeyOf(incident, j) ==
    LET c == Get(incident, "coords")
    IN  IF provinces[j].name \in DOMAIN PROVINCE_CENTERS
        THEN distance(c, PROVINCE_CENTERS[provinces[j].name])
        ELSE 0
\* The first region of the list, among those containing the incident, whose
\* key is the smallest.
Chosen(incident) ==
    CHOOSE j \in Containing(incident) :
        /\ \A i \in Containing(incident) : KeyOf(incident, j) <= KeyOf(incident, i)
        /\ \A i \in Containing(incident) : i < j => KeyOf(incident, i) > KeyOf(incident, j)

\* C9: when regions contain the incident's point, the province is the name of
\* the containing region nearest by centre, a region without a centre
\* counting as at distance zero and the first of the list winning a tie; so
\* a containing region without a centre is never passed over for one whose
\* centre is at a distance other than zero.
C9_NearestCentreFirstWins ==
    Returned =>
        \A k \in 1..Len(incidents) :
            Containing(incidents[k]) # {} =>
                /\ Get(annret.updated[k], "province") = provinces[Chosen(incidents[k])].name
                /\ (\E i \in Containing(incidents[k]) :
                        provinces[i].name \notin DOMAIN PROVINCE_CENTERS)
                   => KeyOf(incidents[k], Chosen(incidents[k])) = 0

\* C9's case: two regions with centres at the same distance contain the
\* point, and the first of the list is the province.
C9_Witness ==
    /\ Returned
    /\ Len(provinces) = 2
    /\ provinces[1].name = "Qom" /\ provinces[2].name = "Tehran"
    /\ \E k \in 1..Len(incidents) :
          /\ Containing(incidents[k]) = {1, 2}
          /\ KeyOf(incidents[k], 1) = KeyOf(incidents[k], 2)
          /\ KeyOf(incidents[k], 1) > 0
          /\ Get(annret.updated[k], "province") = "Qom"

\* C10: a call of annotate_incidents, returning or raising, leaves the
\* caller's incident records, their order and number, and the regions as they
\* were.
C10_InputsUnchanged ==
    [][(annret.state = "ready" /\ annret'.state # "ready") =>
          (incidents' = incidents /\ provinces' = provinces)]_vars

\* C10's case: an input record that already had a province other than the one
\* computed for it.
C10_Witness ==
    /\ Returned
    /\ \E k \in 1..Len(incidents) :
          /\ HasKey(incidents[k], "province")
          /\ Get(incidents[k], "province") # Get(annret.updated[k], "province")

(***************************************************************************)
(* Claims about main and the host document.                                *)
(***************************************************************************)
BeforeWrite ==
    {"read_text", "load_provinces", "parse_verified", "parse_unverified",
     "annotate_verified", "annotate_unverified", "replace_verified", "replace_unverified"}
\* The records of a document's text.
RecordsOf(doc) == SelectSeq(doc, LAMBDA tok : tok.t = "json")
LacksField(doc) ==
    \E i \in 1..Len(doc) :
        doc[i].t = "json" /\ ~(ToSet(RequiredKeys) \subseteq KeySet(doc[i].v))

\* C6: a run writes the host document at most once, and only after both
\* arrays were located, parsed, annotated, formatted and spliced; a run that
\* finds an array missing or a record without a required field ends in the
\* exception, with the document as it was read and with every record in it.
C6_WriteLastOrNotAtAll ==
    /\ writes <= 1
    /\ writes = 1 => BeforeWrite \subseteq steps
    /\ writes = 0 => disk = disk0
    /\ pc = "aborted" => (writes = 0 /\ disk = disk0 /\ exc # "")
    /\ pc = "done" =>
          /\ search(disk0, "open_verified").found
          /\ search(disk0, "open_unverified").found
          /\ ~LacksField(disk0)
          /\ Len(RecordsOf(disk)) = Len(RecordsOf(disk0))

\* C6's case: the verified array was parsed and annotated to new records, a
\* record of the unverified array lacks a field, and the run has ended.
C6_Witness ==
    /\ pc = "aborted"
    /\ exc = "KeyError"
    /\ "annotate_verified" \in steps
    /\ loc.updated_verified # loc.verified_incidents
    /\ disk = disk0

\* The text between an array's opening literal and its closing literal.
ArrayText(doc, open) ==
    LET o == CHOOSE a \in 1..Len(doc) : doc[a].t = open
        c == CHOOSE a \in (o + 1)..Len(doc) :
                 doc[a].t = "close" /\ \A b \in (o + 1)..(a - 1) : doc[b].t # "close"
    IN  SubSeq(doc, o + 1, c - 1)
\* Every record of the document is in json.dumps' form and is the record
\* annotate_incidents returns for it.
AlreadyAnnotated(doc) ==
    LET provs == load_provinces(features)
        v == parse_incidents(doc, "open_verified")
        u == parse_incidents(doc, "open_unverified")
    IN  /\ v.state = "returned" /\ u.state = "returned"
        /\ \A i \in 1..Len(doc) : doc[i].canon
        /\ ~LacksField(doc)
        /\ annotate_incidents(v.incidents, provs).updated = v.incidents
        /\ annotate_incidents(u.incidents, provs).updated = u.incidents

\* C7: a run on a document whose records all carry the correct province
\* leaves the text of both arrays, and the document, as they were.
C7_RoundTripStable ==
    (pc = "done" /\ AlreadyAnnotated(disk0)) =>
        /\ ArrayText(disk, "open_verified") = ArrayText(disk0, "open_verified")
        /\ ArrayText(disk, "open_unverified") = ArrayText(disk0, "open_unverified")
        /\ disk = disk0

=============================================================================
